---- MODULE Spec2Model ----
(***************************************************************************)
(* Model of src/src/App.tsx (Thai retirement planner): the time-value      *)
(* helpers, the readiness figures of App(), the deterministic wealth curve *)
(* (chartData), the Monte Carlo estimator (mc) and the goal editor.        *)
(*                                                                         *)
(* Numbers.  A JavaScript number is modelled as an exact rational <<n, d>> *)
(* in lowest terms with d > 0, or one of the three non-finite values       *)
(* Infinity = <<1, 0>>, -Infinity = <<-1, 0>>, NaN = <<0, 0>>.  The sign   *)
(* of zero is not modelled (every zero is +0).  Exponents of Math.pow are  *)
(* integers in every input the model draws.  Arithmetic is exact, except   *)
(* in the operators with the suffix Fl, which round every result to the    *)
(* nearest binary floating-point number of MantissaBits significant bits   *)
(* (ties to even), as IEEE arithmetic does with 53 bits.                   *)
(***************************************************************************)
EXTENDS Integers, Sequences, FiniteSets, TLC

(* ------------------------------ numbers ------------------------------- *)

Abs(x) == IF x < 0 THEN -x ELSE x

Sgn(x) == IF x > 0 THEN 1 ELSE IF x < 0 THEN -1 ELSE 0

RECURSIVE GCD(_, _)
GCD(a, b) == IF b = 0 THEN a ELSE CHOOSE r \in {GCD(u, v) : u \in {b}, v \in {a % b}} : TRUE

NormV(n, d, g) == <<Sgn(d) * (n \div g), Sgn(d) * (d \div g)>>

\* n/d in lowest terms with a positive denominator (d # 0)
Norm(n, d) ==
    CHOOSE r \in {NormV(u, v, GCD(Abs(u), Abs(v))) : u \in {n}, v \in {d}} : TRUE

R(n) == <<n, 1>>

Q(n, d) == Norm(n, d)

Inf == <<1, 0>>

NegInf == <<-1, 0>>

NaN == <<0, 0>>

IsFinite(a) == a[2] # 0

IsNaN(a) == a = NaN

IsZero(a) == a[2] # 0 /\ a[1] = 0

(* Each operation below binds its operands once (x \in {a}) before it     *)
(* inspects them, so that an operand is evaluated a single time.           *)

NegV(a) == <<-a[1], a[2]>>

Neg(a) == CHOOSE r \in {NegV(x) : x \in {a}} : TRUE

AddV(a, b) ==
    IF IsNaN(a) \/ IsNaN(b) THEN NaN
    ELSE IF ~IsFinite(a) THEN (IF ~IsFinite(b) /\ b # a THEN NaN ELSE a)
    ELSE IF ~IsFinite(b) THEN b
    ELSE Norm(a[1] * b[2] + b[1] * a[2], a[2] * b[2])

Add(a, b) == CHOOSE r \in {AddV(x, z) : x \in {a}, z \in {b}} : TRUE

Sub(a, b) == CHOOSE r \in {AddV(x, NegV(z)) : x \in {a}, z \in {b}} : TRUE

MulV(a, b) ==
    IF IsNaN(a) \/ IsNaN(b) THEN NaN
    ELSE IF ~IsFinite(a) \/ ~IsFinite(b)
         THEN (IF a[1] * b[1] = 0 THEN NaN ELSE <<Sgn(a[1] * b[1]), 0>>)
    ELSE Norm(a[1] * b[1], a[2] * b[2])

Mul(a, b) == CHOOSE r \in {MulV(x, z) : x \in {a}, z \in {b}} : TRUE

\* 1/b: 1/0 is Infinity, 1/(+-Infinity) is 0
InvV(b) ==
    IF IsNaN(b) THEN NaN
    ELSE IF ~IsFinite(b) THEN R(0)
    ELSE IF b[1] = 0 THEN Inf
    ELSE Norm(b[2], b[1])

Inv(b) == CHOOSE r \in {InvV(z) : z \in {b}} : TRUE

\* a / b of JavaScript: x/0 is +-Infinity by the sign of x, 0/0 is NaN
Div(a, b) == CHOOSE r \in {MulV(x, InvV(z)) : x \in {a}, z \in {b}} : TRUE

LtV(a, b) ==
    /\ ~IsNaN(a)
    /\ ~IsNaN(b)
    /\ IF IsFinite(a) /\ IsFinite(b) THEN a[1] * b[2] < b[1] * a[2]
       ELSE IF ~IsFinite(a) /\ ~IsFinite(b) THEN a[1] < b[1]
       ELSE IF ~IsFinite(a) THEN a[1] < 0
       ELSE b[1] > 0

EqV(a, b) == ~IsNaN(a) /\ ~IsNaN(b) /\ a = b

\* a < b; false when either is NaN
Lt(a, b) == \E x \in {a}, z \in {b} : LtV(x, z)

\* a === b
Eq(a, b) == \E x \in {a}, z \in {b} : EqV(x, z)

Le(a, b) == \E x \in {a}, z \in {b} : LtV(x, z) \/ EqV(x, z)

Gt(a, b) == \E x \in {a}, z \in {b} : LtV(z, x)

Ge(a, b) == \E x \in {a}, z \in {b} : LtV(z, x) \/ EqV(x, z)

MathMaxV(a, b) ==
    IF IsNaN(a) \/ IsNaN(b) THEN NaN ELSE IF LtV(a, b) THEN b ELSE a

MathMinV(a, b) ==
    IF IsNaN(a) \/ IsNaN(b) THEN NaN ELSE IF LtV(b, a) THEN b ELSE a

MathMax(a, b) == CHOOSE r \in {MathMaxV(x, z) : x \in {a}, z \in {b}} : TRUE

MathMin(a, b) == CHOOSE r \in {MathMinV(x, z) : x \in {a}, z \in {b}} : TRUE

RECURSIVE PowInt(_, _)
PowInt(b, k) ==
    IF k = 0 THEN R(1)
    ELSE CHOOSE r \in {MulV(b, p) : p \in {PowInt(b, k - 1)}} : TRUE

MathPowV(b, e) ==
    IF e[1] >= 0 THEN PowInt(b, e[1]) ELSE InvV(PowInt(b, -e[1]))

\* Math.pow(b, e) for an integer-valued e; Math.pow(x, 0) is 1 for every x
MathPow(b, e) == CHOOSE r \in {MathPowV(x, z) : x \in {b}, z \in {e}} : TRUE

clamp(n, lo, hi) == MathMax(lo, MathMin(hi, n))

(* ------------------------- rounded arithmetic ------------------------- *)

MantissaBits == 7

\* floor(log2(n / d)) for n, d > 0
RECURSIVE FloorLog2(_, _)
FloorLog2(n, d) ==
    IF n >= d
    THEN IF n >= 2 * d THEN FloorLog2(n, 2 * d) + 1 ELSE 0
    ELSE FloorLog2(2 * n, d) - 1

\* num / den rounded to the nearest integer, ties to even (num >= 0, den > 0)
RoundHalfEven(num, den) ==
    LET q == num \div den
        rem == num % den
    IN  IF 2 * rem > den \/ (2 * rem = den /\ q % 2 = 1) THEN q + 1 ELSE q

RoundV(x) ==
    IF ~IsFinite(x) \/ x[1] = 0 THEN x
    ELSE LET k == MantissaBits - 1 - FloorLog2(Abs(x[1]), x[2])
             m == IF k >= 0 THEN RoundHalfEven(Abs(x[1]) * 2^k, x[2])
                  ELSE RoundHalfEven(Abs(x[1]), x[2] * 2^(-k))
         IN  IF k >= 0 THEN Norm(Sgn(x[1]) * m, 2^k) ELSE R(Sgn(x[1]) * m * 2^(-k))

\* the floating-point number nearest to x
Round(x) == CHOOSE r \in {RoundV(z) : z \in {x}} : TRUE

AddFl(a, b) == Round(Add(a, b))

SubFl(a, b) == Round(Sub(a, b))

MulFl(a, b) == Round(Mul(a, b))

DivFl(a, b) == Round(Div(a, b))

MathPowFl(b, e) == Round(MathPow(b, e))

(* ------------------------------ utilities ----------------------------- *)

annuityCorpus(annualNeedAtRetire, rAfter, years) ==
    IF Le(years, R(0)) THEN R(0)
    ELSE IF Eq(rAfter, R(0)) THEN Mul(annualNeedAtRetire, years)
    ELSE LET factor == Div(Sub(R(1), MathPow(Add(R(1), rAfter), Neg(years))), rAfter)
         IN  Mul(annualNeedAtRetire, factor)

fv(pv, r, n) == Mul(pv, MathPow(Add(R(1), r), n))

\* fvSeries without the n <= 0 guard
fvSeriesNoGuard(pmtPerYear, r, n) ==
    IF Eq(r, R(0)) THEN Mul(pmtPerYear, n)
    ELSE Mul(pmtPerYear, Div(Sub(MathPow(Add(R(1), r), n), R(1)), r))

\* fvSeries for payments made at the start of each year
fvSeriesDue(pmtPerYear, r, n) ==
    IF Le(n, R(0)) THEN R(0)
    ELSE IF Eq(r, R(0)) THEN Mul(pmtPerYear, n)
    ELSE Mul(Mul(pmtPerYear, Div(Sub(MathPow(Add(R(1), r), n), R(1)), r)), Add(R(1), r))

fvSeries(pmtPerYear, r, n) ==
    IF Le(n, R(0)) THEN R(0)
    ELSE IF Eq(r, R(0)) THEN Mul(pmtPerYear, n)
    ELSE Mul(pmtPerYear, Div(Sub(MathPow(Add(R(1), r), n), R(1)), r))

\* requiredSavingsPerYear without the Math.max(.., 0) clamp of the shortfall
requiredSavingsPerYearNoClamp(targetFV, assets, r, years) ==
    LET fvAssets == fv(assets, r, years)
        need == Sub(targetFV, fvAssets)
    IN  IF Eq(need, R(0)) THEN R(0)
        ELSE IF Eq(r, R(0)) THEN Div(need, years)
        ELSE Div(Mul(need, r), Sub(MathPow(Add(R(1), r), years), R(1)))

\* requiredSavingsPerYear with the shortfall taken the other way round
requiredSavingsPerYearSwapped(targetFV, assets, r, years) ==
    LET fvAssets == fv(assets, r, years)
        need == MathMax(Sub(fvAssets, targetFV), R(0))
    IN  IF Eq(need, R(0)) THEN R(0)
        ELSE IF Eq(r, R(0)) THEN Div(need, years)
        ELSE Div(Mul(need, r), Sub(MathPow(Add(R(1), r), years), R(1)))

\* requiredSavingsPerYear that spreads the shortfall without compounding
requiredSavingsPerYearSimple(targetFV, assets, r, years) ==
    LET fvAssets == fv(assets, r, years)
        need == MathMax(Sub(targetFV, fvAssets), R(0))
    IN  IF Eq(need, R(0)) THEN R(0) ELSE Div(need, years)

requiredSavingsPerYear(targetFV, assets, r, years) ==
    LET fvAssets == fv(assets, r, years)
        need == MathMax(Sub(targetFV, fvAssets), R(0))
    IN  IF Eq(need, R(0)) THEN R(0)
        ELSE IF Eq(r, R(0)) THEN Div(need, years)
        ELSE Div(Mul(need, r), Sub(MathPow(Add(R(1), r), years), R(1)))

\* pmtMonthly without the r === 0 branch
pmtMonthlyNoZeroRate(principal, rateYear, years) ==
    LET r == Div(rateYear, R(12))
        n == Mul(years, R(12))
    IN  Div(Mul(principal, r), Sub(R(1), MathPow(Add(R(1), r), Neg(n))))

\* fv, fvSeries and requiredSavingsPerYear in rounded arithmetic
fvFl(pv, r, n) == MulFl(pv, MathPowFl(AddFl(R(1), r), n))

fvSeriesFl(pmtPerYear, r, n) ==
    IF Le(n, R(0)) THEN R(0)
    ELSE IF Eq(r, R(0)) THEN MulFl(pmtPerYear, n)
    ELSE MulFl(pmtPerYear, DivFl(SubFl(MathPowFl(AddFl(R(1), r), n), R(1)), r))

requiredSavingsPerYearFl(targetFV, assets, r, years) ==
    LET fvAssets == fvFl(assets, r, years)
        need == MathMax(SubFl(targetFV, fvAssets), R(0))
    IN  IF Eq(need, R(0)) THEN R(0)
        ELSE IF Eq(r, R(0)) THEN DivFl(need, years)
        ELSE DivFl(MulFl(need, r), SubFl(MathPowFl(AddFl(R(1), r), years), R(1)))

pmtMonthly(principal, rateYear, years) ==
    LET r == Div(rateYear, R(12))
        n == Mul(years, R(12))
    IN  IF Eq(r, R(0)) THEN Div(principal, n)
        ELSE Div(Mul(principal, r), Sub(R(1), MathPow(Add(R(1), r), Neg(n))))

\* childrenCountGuess with >= in place of >
childrenCountGuessAtLeast(monthlyExp) == Ge(monthlyExp, R(40000))

childrenCountGuess(monthlyExp) == Gt(monthlyExp, R(40000))

educationReserveGuess(monthlyExp) ==
    IF childrenCountGuess(monthlyExp) THEN R(1000000) ELSE R(0)

(* -------------------------------- state -------------------------------- *)

VARIABLES
    f,                    \* the useState cells set through NumInput / PercentInput
    mortgage, carLoan,    \* the two loan records of the debt planner
    goals,                \* the goals collection (array of Goal)
    currentYear,          \* what new Date().getFullYear() returns now
    projectedFVAtRetire,  \* the value held by useMemo for projectedFVAtRetire
    pc, i, y, wealth, ok, results,  \* the position and locals of the mc callback
    hist,                 \* the years the current trial has evaluated so far
    call,                 \* a call of a utility function: its arguments and result
    edits                 \* how many goal operations the user has made so far

vars == <<f, mortgage, carLoan, goals, currentYear, projectedFVAtRetire,
          pc, i, y, wealth, ok, results, hist, call, edits>>

mcVars == <<pc, i, y, wealth, ok, results, hist>>

utilVars == <<call>>

appVars == <<f, mortgage, carLoan, goals, currentYear, projectedFVAtRetire, edits>>

age == f.age

retireAge == f.retireAge

lifeExpectancy == f.lifeExpectancy

inflation == f.inflation

returnBefore == f.returnBefore

returnAfter == f.returnAfter

incomeMain == f.incomeMain

incomeSide == f.incomeSide

expBasic == f.expBasic

expHealth == f.expHealth

expLifestyle == f.expLifestyle

currentAssets == f.currentAssets

currentDebt == f.currentDebt

currentSavingPerMonth == f.currentSavingPerMonth

pvdRate == f.pvdRate

lifeCoverHave == f.lifeCoverHave

ciCoverHave == f.ciCoverHave

bearShock == f.bearShock

stdevBefore == f.stdevBefore

stdevAfter == f.stdevAfter

runs == f.runs

(* --------------------------- derived figures -------------------------- *)

incomeYear == Mul(Add(incomeMain, incomeSide), R(12))

monthlyExpense == Add(Add(expBasic, expHealth), expLifestyle)

yearsToRetire == MathMax(Sub(retireAge, age), R(0))

yearsInRetirement == MathMax(Sub(lifeExpectancy, retireAge), R(0))

annualExpenseToday == Mul(monthlyExpense, R(12))

annualExpenseAtRetire ==
    Mul(annualExpenseToday, MathPow(Add(R(1), inflation), yearsToRetire))

targetCorpus == annuityCorpus(annualExpenseAtRetire, returnAfter, yearsInRetirement)

\* Math.max(currentAssets - currentDebt, 0), written out at each use in the source
netAssets == MathMax(Sub(currentAssets, currentDebt), R(0))

\* the sum of the first k elements of s, added from the left, starting at 0
RECURSIVE SumTo(_, _)
SumTo(s, k) ==
    IF k = 0 THEN R(0)
    ELSE CHOOSE r \in {AddV(p, s[k]) : p \in {SumTo(s, k - 1)}} : TRUE

\* s.reduce((a, b) => a + b, 0)
SumSeq(s) == CHOOSE r \in {SumTo(x, Len(x)) : x \in {s}} : TRUE

\* goalsBeforeRetire with g.year < now + yearsToRetire
goalsBeforeRetireStrict(gs, now) ==
    LET Keep(g) == Lt(g.year, Add(R(now), yearsToRetire))
    IN  SelectSeq(gs, Keep)

\* the goals the projection deducts, evaluated when the clock shows year `now`
goalsBeforeRetire(gs, now) ==
    LET Keep(g) == Le(g.year, Add(R(now), yearsToRetire))
    IN  SelectSeq(gs, Keep)

\* a variant that prices every goal at the amount a new goal starts with
goalCostFlat(g, now) ==
    Mul(R(50000), MathPow(Add(R(1), inflation), Sub(g.year, R(now))))

\* g.target * Math.pow(1 + inflation, g.year - now)
goalCostAt(g, now) ==
    Mul(g.target, MathPow(Add(R(1), inflation), Sub(g.year, R(now))))

\* goals.filter(..).map(..).reduce(..)
spendGoalsAt(gs, now) ==
    CHOOSE r \in {SumSeq([k \in 1..Len(due) |-> goalCostAt(due[k], now)]) :
                    due \in {goalsBeforeRetire(gs, now)}} : TRUE

\* the callback of useMemo(projectedFVAtRetire), run on goals gs in year `now`
projectedFVAtRetireAt(gs, now) ==
    LET yearlySaving == Add(Mul(currentSavingPerMonth, R(12)), Mul(incomeYear, pvdRate))
        fromAssets == fv(netAssets, returnBefore, yearsToRetire)
        fromFutureSavings == fvSeries(yearlySaving, returnBefore, yearsToRetire)
        spendGoals == spendGoalsAt(gs, now)
    IN  MathMax(Sub(Add(fromAssets, fromFutureSavings), spendGoals), R(0))

\* the dependency list of that useMemo
projectedDeps ==
    <<currentAssets, currentDebt, currentSavingPerMonth, returnBefore, yearsToRetire,
      goals, incomeYear, pvdRate, inflation>>

\* a dependency list for mc that names the goals as well
mcDepsWithGoals ==
    <<runs, age, retireAge, lifeExpectancy, currentAssets, currentDebt,
      currentSavingPerMonth, incomeYear, pvdRate, returnBefore, returnAfter,
      stdevBefore, stdevAfter, bearShock, annualExpenseAtRetire, inflation, goals>>

\* the dependency list of the useMemo of mc: the callback runs again, and the
\* trials are drawn again, when one of these differs from the last render
mcDeps ==
    <<runs, age, retireAge, lifeExpectancy, currentAssets, currentDebt,
      currentSavingPerMonth, incomeYear, pvdRate, returnBefore, returnAfter,
      stdevBefore, stdevAfter, bearShock, annualExpenseAtRetire, inflation>>

\* the dependency list of the useMemo of chartData: the curve of the last
\* render is returned as it is unless one of these differs
chartDeps ==
    <<age, lifeExpectancy, retireAge, returnBefore, returnAfter, currentSavingPerMonth,
      currentAssets, currentDebt, annualExpenseAtRetire, inflation, incomeYear, pvdRate>>

requiredSavingPerYear ==
    requiredSavingsPerYear(targetCorpus, netAssets, returnBefore, yearsToRetire)

requiredSavingPerMonth == Div(requiredSavingPerYear, R(12))

readiness ==
    IF Gt(targetCorpus, R(0)) THEN Div(projectedFVAtRetire, targetCorpus) ELSE R(0)

\* the ok flag of the readiness StatCard
readinessOk == Ge(readiness, R(1))

yearsToProtect ==
    clamp(IF childrenCountGuess(monthlyExpense) THEN R(20) ELSE R(10), R(5), R(25))

lifeNeed ==
    MathMax(
      Sub(Sub(Add(Add(Mul(incomeYear, yearsToProtect),
                      Add(mortgage.principal, carLoan.principal)),
                  educationReserveGuess(monthlyExpense)),
              netAssets),
          lifeCoverHave),
      R(0))

ciNeed == MathMax(Sub(Mul(incomeYear, R(3)), ciCoverHave), R(0))

\* the per-year contribution of both simulators
yearContribution ==
    Mul(Add(currentSavingPerMonth, Div(Mul(incomeYear, pvdRate), R(12))), R(12))

needAtAge(currentAge) ==
    Mul(annualExpenseAtRetire, MathPow(Add(R(1), inflation), Sub(currentAge, retireAge)))

\* chartLoop with the loop test y < lifeExpectancy - age
RECURSIVE chartLoopShort(_, _, _)
chartLoopShort(yy, w, data) ==
    IF ~Lt(R(yy), Sub(lifeExpectancy, age)) THEN data
    ELSE LET currentAge == Add(age, R(yy))
         IN  IF Lt(currentAge, retireAge)
             THEN LET w2 == Add(Mul(w, Add(R(1), returnBefore)), yearContribution)
                  IN  chartLoopShort(yy + 1, w2,
                        Append(data, [age |-> currentAge, wealth |-> MathMax(w2, R(0))]))
             ELSE LET need == needAtAge(currentAge)
                      w2 == Sub(Mul(w, Add(R(1), returnAfter)), need)
                  IN  chartLoopShort(yy + 1, w2,
                        Append(data, [age |-> currentAge, wealth |-> MathMax(w2, R(0)),
                                      draw |-> need]))

\* one pass of the for loop of chartData, from year yy with wealth w
RECURSIVE chartLoop(_, _, _)
chartLoop(yy, w, data) ==
    IF ~Le(R(yy), Sub(lifeExpectancy, age)) THEN data
    ELSE LET currentAge == Add(age, R(yy))
         IN  IF Lt(currentAge, retireAge)
             THEN LET w2 == Add(Mul(w, Add(R(1), returnBefore)), yearContribution)
                  IN  chartLoop(yy + 1, w2,
                        Append(data, [age |-> currentAge, wealth |-> MathMax(w2, R(0))]))
             ELSE LET need == needAtAge(currentAge)
                      w2 == Sub(Mul(w, Add(R(1), returnAfter)), need)
                  IN  chartLoop(yy + 1, w2,
                        Append(data, [age |-> currentAge, wealth |-> MathMax(w2, R(0)),
                                      draw |-> need]))

chartData == chartLoop(0, netAssets, <<>>)

\* the accumulation branch of the chartData loop taken n times in rounded
\* arithmetic, with growth = 1 + returnBefore and the yearly contribution c
RECURSIVE accumulateFl(_, _, _, _)
accumulateFl(w, growth, c, n) ==
    IF n = 0 THEN w
    ELSE accumulateFl(AddFl(MulFl(w, growth), c), growth, c, n - 1)

\* the wealth the curve records after n accumulation years, in rounded
\* arithmetic
chartWealthFl(n) ==
    LET c == MulFl(AddFl(Round(currentSavingPerMonth),
                         DivFl(MulFl(Round(incomeYear), Round(pvdRate)), R(12))),
                   R(12))
        growth == AddFl(R(1), Round(returnBefore))
    IN  MathMax(accumulateFl(Round(netAssets), growth, c, n), R(0))

\* the callback of projectedFVAtRetire without goals, in rounded arithmetic
projectedFVAtRetireFl ==
    LET yearlySaving == AddFl(MulFl(Round(currentSavingPerMonth), R(12)),
                              MulFl(Round(incomeYear), Round(pvdRate)))
        fromAssets == fvFl(Round(netAssets), Round(returnBefore), yearsToRetire)
        fromFutureSavings == fvSeriesFl(yearlySaving, Round(returnBefore), yearsToRetire)
    IN  MathMax(AddFl(fromAssets, fromFutureSavings), R(0))

(* ------------------------------- inputs ------------------------------- *)

\* bounds of the values the model types into the form
MaxAge == 2

IncomeHi == 1

ExpHi == 1

AssetsHi == 20

DebtHi == 5

SavingHi == 2

CoverHi == 100

FirstYear == 2025

\* what the user leaves in an <input type="number">: nothing, or text that
\* unary plus turns into num (NaN when it is no number)
RawEmpty == [empty |-> TRUE, num |-> NaN]

Raw(v) == [empty |-> FALSE, num |-> v]

\* the NumInput and PercentInput fields edited under Spec: those the readiness
\* figures and the wealth curve read
NumFields ==
    {"age", "retireAge", "lifeExpectancy", "expBasic", "currentAssets", "currentDebt",
     "currentSavingPerMonth"}

PercentFields == {"inflation", "returnBefore", "returnAfter"}

\* the numbers typed into each NumInput
NumTyped(k) ==
    CASE k \in {"age", "retireAge", "lifeExpectancy"} -> {R(a) : a \in 0..MaxAge}
      [] k = "incomeMain" -> {R(IncomeHi)}
      [] k = "expBasic" -> {R(0), R(ExpHi)}
      [] k = "currentAssets" -> {R(0), R(AssetsHi)}
      [] k = "currentDebt" -> {R(0), R(DebtHi)}
      [] k = "currentSavingPerMonth" -> {R(0), R(SavingHi)}
      [] k \in {"lifeCoverHave", "ciCoverHave"} -> {R(CoverHi)}
      [] OTHER -> {R(0)}

\* the percentages typed into each PercentInput
PercentTyped(k) ==
    CASE k = "inflation" -> {R(0), R(100)}
      [] k = "returnBefore" -> {R(-50), R(0), R(100)}
      [] k = "returnAfter" -> {R(0), R(100)}
      [] OTHER -> {R(5)}

\* the fields that are also left empty or filled with text that is no number
OddRawFields == {"currentAssets"}

NumRaw(k) ==
    {Raw(v) : v \in NumTyped(k)}
      \cup (IF k \in OddRawFields THEN {RawEmpty, Raw(NaN)} ELSE {})

PercentRaw(k) == {Raw(v) : v \in PercentTyped(k)}

\* parseInput without the Number.isNaN guard
parseInputUnguarded(raw) == IF raw.empty THEN R(0) ELSE raw.num

\* const num = raw === "" ? 0 : +raw;  Number.isNaN(num) ? 0 : num
parseInput(raw) ==
    LET num == IF raw.empty THEN R(0) ELSE raw.num
    IN  IF IsNaN(num) THEN R(0) ELSE num

\* the goals array the component is constructed with in year `now`
initialGoals(now) ==
    << [id |-> "g1", name |-> "emergency fund", target |-> R(120000),
        year |-> R(now), priority |-> R(10)],
       [id |-> "g2", name |-> "travel", target |-> R(80000),
        year |-> R(now + 1), priority |-> R(3)] >>

initialMortgage == [principal |-> R(2000000), rate |-> Q(55, 1000), years |-> R(25)]

initialCarLoan == [principal |-> R(400000), rate |-> Q(6, 100), years |-> R(5)]

\* no utility function is being followed
noCall == [fn |-> "none", args |-> <<>>, out |-> R(0), done |-> FALSE]

\* the mc callback is not running
mcIdle ==
    /\ pc = "idle"
    /\ i = 0
    /\ y = 0
    /\ wealth = R(0)
    /\ ok = TRUE
    /\ results = [len |-> 0, sum |-> 0]
    /\ hist = <<>>

(* ------------------- Spec: the figures of one render ------------------ *)

\* the form as first rendered, with the fields the readiness, protection and
\* wealth-curve figures read drawn from the typed values
Init ==
    /\ \E a \in NumTyped("age"), ra \in NumTyped("retireAge"),
          le \in NumTyped("lifeExpectancy"),
          infl \in PercentTyped("inflation"), rb \in PercentTyped("returnBefore"),
          raf \in PercentTyped("returnAfter"), pvd \in PercentTyped("pvdRate"),
          im \in NumTyped("incomeMain"), eb \in NumTyped("expBasic"),
          ca \in NumTyped("currentAssets"), cd \in NumTyped("currentDebt"),
          cs \in NumTyped("currentSavingPerMonth"),
          lc \in NumTyped("lifeCoverHave"), cc \in NumTyped("ciCoverHave") :
         f = [age |-> a, retireAge |-> ra, lifeExpectancy |-> le,
              inflation |-> Div(infl, R(100)), returnBefore |-> Div(rb, R(100)),
              returnAfter |-> Div(raf, R(100)), pvdRate |-> Div(pvd, R(100)),
              incomeMain |-> im, incomeSide |-> R(0),
              expBasic |-> eb, expHealth |-> R(0), expLifestyle |-> R(0),
              currentAssets |-> ca, currentDebt |-> cd, currentSavingPerMonth |-> cs,
              lifeCoverHave |-> lc, ciCoverHave |-> cc,
              bearShock |-> Q(-2, 10), stdevBefore |-> Q(10, 100),
              stdevAfter |-> Q(5, 100), runs |-> R(500)]
    /\ mortgage = initialMortgage
    /\ carLoan = initialCarLoan
    /\ currentYear = FirstYear
    /\ goals = <<>>
    /\ projectedFVAtRetire = projectedFVAtRetireAt(goals, currentYear)
    /\ mcIdle
    /\ edits = 0
    /\ call = noCall

\* the re-render after a state change: useMemo runs its callback again when
\* one of its dependencies changed
Render ==
    projectedFVAtRetire' =
        IF projectedDeps' # projectedDeps
        THEN projectedFVAtRetireAt(goals, currentYear)'
        ELSE projectedFVAtRetire

NumInputOnChange(k, raw) ==
    /\ f' = [f EXCEPT ![k] = parseInput(raw)]
    /\ UNCHANGED <<mortgage, carLoan, goals, currentYear, mcVars, utilVars, edits>>
    /\ Render

PercentInputOnChange(k, raw) ==
    /\ f' = [f EXCEPT ![k] = Div(parseInput(raw), R(100))]
    /\ UNCHANGED <<mortgage, carLoan, goals, currentYear, mcVars, utilVars, edits>>
    /\ Render

Next ==
    \/ \E k \in NumFields : \E raw \in NumRaw(k) : NumInputOnChange(k, raw)
    \/ \E k \in PercentFields : \E raw \in PercentRaw(k) : PercentInputOnChange(k, raw)

Spec == Init /\ [][Next]_vars

(* ------------------- SpecGoals: the goal editor ----------------------- *)

MaxGoals == 4

MaxEdits == 2

MaxTick == 1

GoalAssetsHi == 500000

\* the identifiers Math.random().toString(36).slice(2) may return
NewIds == {"r1", "r2"}

\* the patches the four inputs of a goal row pass to upd
Patches ==
    { [name |-> "renamed"], [target |-> R(0)], [year |-> R(FirstYear + 2)],
      [priority |-> R(1)] }

\* { ...g, ...patch }
merge(g, patch) ==
    [k \in DOMAIN g |-> IF k \in DOMAIN patch THEN patch[k] ELSE g[k]]

\* the form with the two goals the component is constructed with
InitGoals ==
    /\ \E ra \in NumTyped("retireAge"), infl \in PercentTyped("inflation") :
         f = [age |-> R(0), retireAge |-> ra, lifeExpectancy |-> R(MaxAge),
              inflation |-> Div(infl, R(100)), returnBefore |-> R(0),
              returnAfter |-> R(0), pvdRate |-> Q(5, 100),
              incomeMain |-> R(IncomeHi), incomeSide |-> R(0),
              expBasic |-> R(ExpHi), expHealth |-> R(0), expLifestyle |-> R(0),
              currentAssets |-> R(GoalAssetsHi), currentDebt |-> R(0),
              currentSavingPerMonth |-> R(0),
              lifeCoverHave |-> R(0), ciCoverHave |-> R(0),
              bearShock |-> Q(-2, 10), stdevBefore |-> Q(10, 100),
              stdevAfter |-> Q(5, 100), runs |-> R(500)]
    /\ mortgage = initialMortgage
    /\ carLoan = initialCarLoan
    /\ currentYear = FirstYear
    /\ goals = initialGoals(currentYear)
    /\ projectedFVAtRetire = projectedFVAtRetireAt(goals, currentYear)
    /\ mcIdle
    /\ edits = 0
    /\ call = noCall

\* the re-render after setGoals: the updater returns a new array, so the
\* goals dependency of useMemo differs and the callback runs again
RenderAfterSetGoals ==
    projectedFVAtRetire' = projectedFVAtRetireAt(goals, currentYear)'

\* goals.map(g => ...) with the test on the identifier left out
updGoalsAll(gs, id, patch) ==
    [k \in 1..Len(gs) |-> merge(gs[k], patch)]

\* goals.map(g => g.id === id ? { ...g, ...patch } : g)
updGoals(gs, id, patch) ==
    [k \in 1..Len(gs) |-> IF gs[k].id = id THEN merge(gs[k], patch) ELSE gs[k]]

\* goals.filter(g => g.id !== id)
delGoals(gs, id) ==
    LET Keep(g) == g.id # id
    IN  SelectSeq(gs, Keep)

add(newId) ==
    /\ edits < MaxEdits
    /\ Len(goals) < MaxGoals
    /\ goals' = Append(goals, [id |-> newId, name |-> "new goal", target |-> R(50000),
                               year |-> R(currentYear + 1), priority |-> R(5)])
    /\ edits' = edits + 1
    /\ UNCHANGED <<f, mortgage, carLoan, currentYear, mcVars, utilVars>>
    /\ RenderAfterSetGoals

upd(id, patch) ==
    /\ edits < MaxEdits
    /\ goals' = updGoals(goals, id, patch)
    /\ edits' = edits + 1
    /\ UNCHANGED <<f, mortgage, carLoan, currentYear, mcVars, utilVars>>
    /\ RenderAfterSetGoals

del(id) ==
    /\ edits < MaxEdits
    /\ goals' = delGoals(goals, id)
    /\ edits' = edits + 1
    /\ UNCHANGED <<f, mortgage, carLoan, currentYear, mcVars, utilVars>>
    /\ RenderAfterSetGoals

\* the calendar year advances while the page stays open; nothing re-renders
Tick ==
    /\ currentYear < FirstYear + MaxTick
    /\ currentYear' = currentYear + 1
    /\ UNCHANGED <<f, mortgage, carLoan, goals, projectedFVAtRetire, mcVars, utilVars, edits>>

\* the identifiers of the rows the editor shows
rowIds == {goals[k].id : k \in 1..Len(goals)}

NextGoals ==
    \/ \E newId \in NewIds : add(newId)
    \/ \E id \in rowIds : \E patch \in Patches : upd(id, patch)
    \/ \E id \in rowIds : del(id)
    \/ Tick

SpecGoals == InitGoals /\ [][NextGoals]_vars

(* ------- SpecMemo: form edits and goal edits while the year turns ------ *)

\* the NumInput and PercentInput fields edited under SpecMemo: currentAssets
\* is in the dependency list of projectedFVAtRetire, the others are not
MemoNumFields == {"expBasic", "currentAssets"}

MemoPercentFields == {"returnAfter"}

NextMemo ==
    \/ \E k \in MemoNumFields : \E raw \in NumRaw(k) : NumInputOnChange(k, raw)
    \/ \E k \in MemoPercentFields : \E raw \in PercentRaw(k) :
         PercentInputOnChange(k, raw)
    \/ \E id \in rowIds : \E patch \in Patches : upd(id, patch)
    \/ Tick

SpecMemo == InitGoals /\ [][NextMemo]_vars

(* ------------- SpecScale: the same plan in another unit --------------- *)

\* the factors every amount of money is multiplied by
ScaleFactors == {R(2), Q(1, 2)}

\* the inputs that hold an amount of money
CurrencyFields ==
    {"incomeMain", "incomeSide", "expBasic", "expHealth", "expLifestyle",
     "currentAssets", "currentDebt", "currentSavingPerMonth"}

scaleForm(form, k) ==
    [fld \in DOMAIN form |->
       IF fld \in CurrencyFields THEN Mul(k, form[fld]) ELSE form[fld]]

scaleGoals(gs, k) ==
    [j \in 1..Len(gs) |-> [gs[j] EXCEPT !.target = Mul(k, gs[j].target)]]

InitScale ==
    /\ \E ra \in NumTyped("retireAge"), infl \in PercentTyped("inflation"),
          rb \in PercentTyped("returnBefore"), rf \in PercentTyped("returnAfter"),
          ex \in NumTyped("expBasic"), sv \in NumTyped("currentSavingPerMonth"),
          as \in {R(0), R(GoalAssetsHi)}, db \in NumTyped("currentDebt") :
         f = [age |-> R(0), retireAge |-> ra, lifeExpectancy |-> R(MaxAge),
              inflation |-> Div(infl, R(100)), returnBefore |-> Div(rb, R(100)),
              returnAfter |-> Div(rf, R(100)), pvdRate |-> Q(5, 100),
              incomeMain |-> R(IncomeHi), incomeSide |-> R(0),
              expBasic |-> ex, expHealth |-> R(0), expLifestyle |-> R(0),
              currentAssets |-> as, currentDebt |-> db,
              currentSavingPerMonth |-> sv,
              lifeCoverHave |-> R(0), ciCoverHave |-> R(0),
              bearShock |-> Q(-2, 10), stdevBefore |-> Q(10, 100),
              stdevAfter |-> Q(5, 100), runs |-> R(500)]
    /\ mortgage = initialMortgage
    /\ carLoan = initialCarLoan
    /\ currentYear = FirstYear
    /\ goals = initialGoals(currentYear)
    /\ projectedFVAtRetire = projectedFVAtRetireAt(goals, currentYear)
    /\ mcIdle
    /\ edits = 0
    /\ call = noCall

\* the user re-enters every amount of money, of the form and of each goal,
\* multiplied by k; the page is rendered again on the new values
rescale(k) ==
    /\ edits < MaxEdits
    /\ f' = scaleForm(f, k)
    /\ goals' = scaleGoals(goals, k)
    /\ edits' = edits + 1
    /\ UNCHANGED <<mortgage, carLoan, currentYear, mcVars, utilVars>>
    /\ RenderAfterSetGoals

NextScale == \E k \in ScaleFactors : rescale(k)

SpecScale == InitScale /\ [][NextScale]_vars

(* ------------------ SpecMC: the Monte Carlo callback ------------------ *)
(* results is kept as its length and its sum, all the code reads of it.    *)
(* hist records, for the trial under way, each year the inner loop has     *)
(* evaluated: its age, whether it was a decumulation year, and the wealth  *)
(* the year's assignments left.                                            *)

McAssetsHi == 1000

McAssetsLo == 20

McLife == 3

\* the values of z = sqrt(-2 ln u) cos(2 pi v) the model draws
NormalDraws == {R(-2), R(2)}

\* mean + z * stdev, for the standard normal draw z
randomNormal(mean, stdev, z) == Add(mean, Mul(z, stdev))

\* the form contents the callback is run on: ages, assets, the two standard
\* deviations and the first-year shock
mcForm(a, ra, le, assets, sdBefore, sdAfter, shock) ==
    [age |-> R(a), retireAge |-> R(ra), lifeExpectancy |-> R(le),
     inflation |-> R(0), returnBefore |-> R(0), returnAfter |-> R(0),
     pvdRate |-> Q(5, 100), incomeMain |-> R(0), incomeSide |-> R(0),
     expBasic |-> R(ExpHi), expHealth |-> R(0), expLifestyle |-> R(0),
     currentAssets |-> R(assets), currentDebt |-> R(0),
     currentSavingPerMonth |-> R(1),
     lifeCoverHave |-> R(0), ciCoverHave |-> R(0),
     bearShock |-> shock, stdevBefore |-> sdBefore, stdevAfter |-> sdAfter,
     runs |-> R(500)]

McForms ==
    { \* two accumulation years, then retirement; every trial survives
      mcForm(0, 2, McLife, McAssetsHi, Q(1, 4), R(0), Q(-1, 2)),
      \* the same with a shock that turns wealth negative before retirement
      mcForm(0, 2, McLife, McAssetsHi, R(1), R(0), R(-2)),
      \* already retired at the first simulated year; some trials run dry
      mcForm(0, 0, 1, McAssetsLo, R(0), Q(1, 4), Q(-1, 2)),
      \* older than the retirement age
      mcForm(1, 0, 2, McAssetsHi, R(0), R(0), Q(-1, 2)),
      \* no volatility and no shock; the assets last through retirement
      mcForm(0, 1, McLife, McAssetsHi, R(0), R(0), R(0)),
      \* no volatility and no shock; the assets run out in the last year
      mcForm(0, 1, McLife, McAssetsLo, R(0), R(0), R(0)) }

\* what the trial-count NumInput passes to setRuns
McRunsTyped == {R(0), Q(201, 2)}

InitMC ==
    /\ \E form \in McForms, v \in McRunsTyped :
         f = [form EXCEPT !.runs = clamp(v, R(100), R(3000))]
    /\ mortgage = initialMortgage
    /\ carLoan = initialCarLoan
    /\ currentYear = FirstYear
    /\ goals = <<>>
    /\ projectedFVAtRetire = projectedFVAtRetireAt(goals, currentYear)
    /\ pc = "trial"
    /\ i = 0
    /\ y = 0
    /\ wealth = R(0)
    /\ ok = TRUE
    /\ results = [len |-> 0, sum |-> 0]
    /\ hist = <<>>
    /\ edits = 0
    /\ call = noCall

horizonYears == Sub(lifeExpectancy, age)

\* for (let i = 0; i < runs; i++): start trial i, or leave the loop
mcTrial ==
    /\ pc = "trial"
    /\ IF Lt(R(i), runs)
       THEN /\ wealth' = netAssets
            /\ ok' = TRUE
            /\ y' = 0
            /\ pc' = "year"
       ELSE /\ pc' = "done"
            /\ UNCHANGED <<wealth, ok, y>>
    /\ hist' = <<>>
    /\ UNCHANGED <<i, results, appVars, utilVars>>

\* a variant that shocks the grown wealth before the contribution is added
accumulateShockFirst(w, yy, z) ==
    LET r == randomNormal(returnBefore, stdevBefore, z)
        grown == Mul(w, Add(R(1), r))
    IN  IF yy = 0
        THEN Add(Mul(grown, Add(R(1), bearShock)), yearContribution)
        ELSE Add(grown, yearContribution)

\* the wealth an accumulation year leaves, for the draw z
accumulate(w, yy, z) ==
    LET r == randomNormal(returnBefore, stdevBefore, z)
        grown == Add(Mul(w, Add(R(1), r)), yearContribution)
    IN  IF yy = 0 THEN Mul(grown, Add(R(1), bearShock)) ELSE grown

\* the wealth a decumulation year leaves, for the draw z
decumulate(w, currentAge, z) ==
    LET r == randomNormal(returnAfter, stdevAfter, z)
    IN  Sub(Mul(w, Add(R(1), r)), needAtAge(currentAge))

\* one pass of the inner loop in a year before retirement
mcAccumulate(z) ==
    /\ pc = "year"
    /\ Le(R(y), horizonYears)
    /\ Lt(Add(age, R(y)), retireAge)
    /\ wealth' = accumulate(wealth, y, z)
    /\ hist' = Append(hist, [age |-> Add(age, R(y)), decum |-> FALSE, wealth |-> wealth'])
    /\ y' = y + 1
    /\ UNCHANGED <<pc, i, ok, results, appVars, utilVars>>

\* a variant of the retirement pass without the break
mcDecumulateNoBreak(z) ==
    /\ pc = "year"
    /\ Le(R(y), horizonYears)
    /\ ~Lt(Add(age, R(y)), retireAge)
    /\ wealth' = decumulate(wealth, Add(age, R(y)), z)
    /\ hist' = Append(hist, [age |-> Add(age, R(y)), decum |-> TRUE, wealth |-> wealth'])
    /\ ok' = IF Le(wealth', R(0)) THEN FALSE ELSE ok
    /\ y' = y + 1
    /\ UNCHANGED <<pc, i, results, appVars, utilVars>>

\* one pass of the inner loop in a year of retirement
mcDecumulate(z) ==
    /\ pc = "year"
    /\ Le(R(y), horizonYears)
    /\ ~Lt(Add(age, R(y)), retireAge)
    /\ wealth' = decumulate(wealth, Add(age, R(y)), z)
    /\ hist' = Append(hist, [age |-> Add(age, R(y)), decum |-> TRUE, wealth |-> wealth'])
    /\ IF Le(wealth', R(0))
       THEN ok' = FALSE /\ pc' = "push" /\ y' = y
       ELSE ok' = ok /\ pc' = "year" /\ y' = y + 1
    /\ UNCHANGED <<i, results, appVars, utilVars>>

\* y <= horizonYears fails: the inner loop ends
mcYearsDone ==
    /\ pc = "year"
    /\ ~Le(R(y), horizonYears)
    /\ pc' = "push"
    /\ UNCHANGED <<i, y, wealth, ok, results, hist, appVars, utilVars>>

\* results.push(ok ? 1 : 0); i++
mcPush ==
    /\ pc = "push"
    /\ results' = [len |-> results.len + 1, sum |-> results.sum + (IF ok THEN 1 ELSE 0)]
    /\ i' = i + 1
    /\ pc' = "trial"
    /\ UNCHANGED <<y, wealth, ok, hist, appVars, utilVars>>

\* results.reduce((a, b) => a + b, 0) / Math.max(runs, 1), once the loop is left
successProb == Div(R(results.sum), MathMax(runs, R(1)))

NextMC ==
    \/ mcTrial
    \/ \E z \in NormalDraws : mcAccumulate(z)
    \/ \E z \in NormalDraws : mcDecumulate(z)
    \/ mcYearsDone
    \/ mcPush

SpecMC == InitMC /\ [][NextMC]_vars

(* ------- SpecPanel: the protection figures and the trial count -------- *)

PanelIncome == 50000

PanelAssets == 3000000

PanelDebt == 1000000

PanelLifeCover == 500000

PanelCiCover == 2000000

\* the NumInput fields edited under SpecPanel: those the protection figures read
PanelFields ==
    {"incomeMain", "expBasic", "expLifestyle", "currentAssets", "currentDebt",
     "lifeCoverHave", "ciCoverHave"}

\* the numbers typed into each of them; the expenses add up to 39,999,
\* 40,000 or 40,001
PanelTyped(k) ==
    CASE k = "incomeMain" -> {R(0), R(PanelIncome)}
      [] k = "expBasic" -> {R(39999), R(40000)}
      [] k = "expLifestyle" -> {R(0), R(1)}
      [] k = "currentAssets" -> {R(0), R(PanelAssets)}
      [] k = "currentDebt" -> {R(0), R(PanelDebt)}
      [] k = "lifeCoverHave" -> {R(0), R(PanelLifeCover)}
      [] k = "ciCoverHave" -> {R(0), R(PanelCiCover)}
      [] OTHER -> {R(0)}

\* what is left in the trial-count input: nothing, text that is no number,
\* or a number below, inside or above the range
RunsRaw ==
    {RawEmpty, Raw(NaN), Raw(R(-5)), Raw(R(99)), Raw(R(100)), Raw(Q(201, 2)),
     Raw(R(500)), Raw(R(3000)), Raw(R(3001))}

\* the loan amounts typed into the debt planner
PrincipalRaw(loan) == {Raw(R(0)), Raw(loan.principal)}

InitPanel ==
    /\ f = [mcForm(0, 0, 0, 0, Q(10, 100), Q(5, 100), Q(-2, 10))
              EXCEPT !.expBasic = R(39999), !.currentSavingPerMonth = R(0)]
    /\ mortgage = initialMortgage
    /\ carLoan = initialCarLoan
    /\ currentYear = FirstYear
    /\ goals = <<>>
    /\ projectedFVAtRetire = projectedFVAtRetireAt(goals, currentYear)
    /\ mcIdle
    /\ edits = 0
    /\ call = noCall

\* onChange={(v)=>setRuns(clamp(v,100,3000))}, called by NumInput's onChange
runsOnChange(raw) ==
    /\ f' = [f EXCEPT !.runs = clamp(parseInput(raw), R(100), R(3000))]
    /\ UNCHANGED <<mortgage, carLoan, goals, currentYear, mcVars, utilVars, edits>>
    /\ Render

\* onChange={(v)=>setMortgage({ ...mortgage, principal: v })}
mortgagePrincipalOnChange(raw) ==
    /\ mortgage' = [mortgage EXCEPT !.principal = parseInput(raw)]
    /\ UNCHANGED <<f, carLoan, goals, currentYear, mcVars, utilVars, edits>>
    /\ Render

\* onChange={(v)=>setCarLoan({ ...carLoan, principal: v })}
carLoanPrincipalOnChange(raw) ==
    /\ carLoan' = [carLoan EXCEPT !.principal = parseInput(raw)]
    /\ UNCHANGED <<f, mortgage, goals, currentYear, mcVars, utilVars, edits>>
    /\ Render

NextPanel ==
    \/ \E k \in PanelFields : \E v \in PanelTyped(k) : NumInputOnChange(k, Raw(v))
    \/ \E raw \in RunsRaw : runsOnChange(raw)
    \/ \E raw \in PrincipalRaw(initialMortgage) : mortgagePrincipalOnChange(raw)
    \/ \E raw \in PrincipalRaw(initialCarLoan) : carLoanPrincipalOnChange(raw)

SpecPanel == InitPanel /\ [][NextPanel]_vars

(* --------------- SpecUtil: the utility functions alone ---------------- *)

UtilAmount == 100

UtilYears == 2

\* amounts of money passed to the utilities
UtilAmounts == {R(-UtilAmount), R(0), R(UtilAmount), R(12 * UtilAmount)}

\* yearly rates passed to the utilities
UtilRates == {R(-2), R(-1), Q(-1, 2), R(0), Q(1, 4), R(1)}

\* yearly rates passed to the utilities in rounded arithmetic
UtilRatesFl == {Q(-1, 2), R(0), Q(1, 16), Q(6, 100), Q(1, 10), R(1)}

\* period counts passed to the utilities
UtilPeriods == {R(n) : n \in -1..UtilYears}

UtilCalls ==
    {[fn |-> fn, args |-> <<a, r, n>>] :
       fn \in {"fv", "fvSeries", "annuityCorpus"},
       a \in UtilAmounts, r \in UtilRates, n \in UtilPeriods}
    \cup {[fn |-> "requiredSavingsPerYear", args |-> <<t, a, r, n>>] :
            t \in UtilAmounts, a \in UtilAmounts, r \in UtilRates, n \in UtilPeriods}
    \cup {[fn |-> "pmtMonthly", args |-> <<pr, R(0), R(n)>>] :
            pr \in {R(0), R(120000)}, n \in {1, 10}}
    \cup {[fn |-> "pmtMonthly", args |-> <<pr, r, R(1)>>] :
            pr \in {R(0), R(120000)}, r \in {R(-6), R(12)}}
    \cup {[fn |-> "requiredSavingsPerYearFl",
           args |-> <<Round(t), Round(a), Round(r), n>>] :
            t \in UtilAmounts, a \in UtilAmounts, r \in UtilRatesFl,
            n \in UtilPeriods}

\* a utility is about to be called on drawn arguments
InitUtil ==
    /\ f = mcForm(0, 0, 0, 0, R(0), R(0), R(0))
    /\ mortgage = initialMortgage
    /\ carLoan = initialCarLoan
    /\ currentYear = FirstYear
    /\ goals = <<>>
    /\ projectedFVAtRetire = projectedFVAtRetireAt(goals, currentYear)
    /\ mcIdle
    /\ edits = 0
    /\ \E c \in UtilCalls : call = [fn |-> c.fn, args |-> c.args, out |-> R(0), done |-> FALSE]

\* the call followed, once the function has returned value
returned(value) == [call EXCEPT !.out = value, !.done = TRUE]

callFv ==
    /\ call.fn = "fv"
    /\ ~call.done
    /\ call' = returned(fv(call.args[1], call.args[2], call.args[3]))
    /\ UNCHANGED <<appVars, mcVars>>

callFvSeries ==
    /\ call.fn = "fvSeries"
    /\ ~call.done
    /\ call' = returned(fvSeries(call.args[1], call.args[2], call.args[3]))
    /\ UNCHANGED <<appVars, mcVars>>

callAnnuityCorpus ==
    /\ call.fn = "annuityCorpus"
    /\ ~call.done
    /\ call' = returned(annuityCorpus(call.args[1], call.args[2], call.args[3]))
    /\ UNCHANGED <<appVars, mcVars>>

callRequiredSavingsPerYear ==
    /\ call.fn = "requiredSavingsPerYear"
    /\ ~call.done
    /\ call' = returned(
         requiredSavingsPerYear(call.args[1], call.args[2], call.args[3], call.args[4]))
    /\ UNCHANGED <<appVars, mcVars>>

callPmtMonthly ==
    /\ call.fn = "pmtMonthly"
    /\ ~call.done
    /\ call' = returned(pmtMonthly(call.args[1], call.args[2], call.args[3]))
    /\ UNCHANGED <<appVars, mcVars>>

\* requiredSavingsPerYear as the processor computes it, with rounding
callRequiredSavingsPerYearFl ==
    /\ call.fn = "requiredSavingsPerYearFl"
    /\ ~call.done
    /\ call' = returned(
         requiredSavingsPerYearFl(call.args[1], call.args[2], call.args[3], call.args[4]))
    /\ UNCHANGED <<appVars, mcVars>>

NextUtil ==
    \/ callRequiredSavingsPerYearFl
    \/ callFv
    \/ callFvSeries
    \/ callAnnuityCorpus
    \/ callRequiredSavingsPerYear
    \/ callPmtMonthly

SpecUtil == InitUtil /\ [][NextUtil]_vars

(* ------------------------- claims under Spec -------------------------- *)

\* currentAge <= retirementAge <= lifeExpectancy
OrderedAges == Le(age, retireAge) /\ Le(retireAge, lifeExpectancy)

\* the documented domain of the rates
RatesAboveMinusOne ==
    /\ Gt(inflation, R(-1))
    /\ Gt(returnBefore, R(-1))
    /\ Gt(returnAfter, R(-1))

\* C2: for ordered ages the wealth curve has lifeExpectancy - age + 1 records,
\* starts at the current age, steps the age by one, and carries a draw field
\* exactly in the records whose age is at least retireAge
C2_ChartShape ==
    OrderedAges =>
      LET d == chartData
      IN  /\ R(Len(d)) = Add(Sub(lifeExpectancy, age), R(1))
          /\ d[1].age = age
          /\ \A k \in 1..(Len(d) - 1) : d[k + 1].age = Add(d[k].age, R(1))
          /\ \A k \in 1..Len(d) : ("draw" \in DOMAIN d[k]) <=> Ge(d[k].age, retireAge)

\* C2 witness: a curve with accumulation years followed by decumulation years
C2_Witness ==
    /\ Lt(age, retireAge)
    /\ Lt(retireAge, lifeExpectancy)
    /\ Len(chartData) = 3
    /\ "draw" \notin DOMAIN chartData[1]
    /\ "draw" \in DOMAIN chartData[3]

\* C3: with a target corpus of 0 the plan is reported as ready
C3_ZeroTargetIsReady ==
    (OrderedAges /\ Eq(targetCorpus, R(0))) => readinessOk

\* C4 as claimed: whenever the projected corpus covers the target corpus the
\* required monthly saving is 0
C4_NoShortfallNoSaving ==
    Ge(projectedFVAtRetire, targetCorpus) => Eq(requiredSavingPerMonth, R(0))

\* C4 amended: the required monthly saving is 0 whenever the future value of
\* the current net assets alone covers the target corpus
C4_AssetsCoverNoSaving ==
    Ge(fv(netAssets, returnBefore, yearsToRetire), targetCorpus)
      => Eq(requiredSavingPerMonth, R(0))

\* C4 witness: net assets that outgrow a positive target corpus before retirement
C4_Witness ==
    /\ Gt(yearsToRetire, R(0))
    /\ Gt(targetCorpus, R(0))
    /\ Gt(fv(netAssets, returnBefore, yearsToRetire), targetCorpus)
    /\ Eq(requiredSavingPerMonth, R(0))

\* C5: with no year left to retirement the required contribution is zero
C5_ZeroHorizonZeroSaving ==
    Le(retireAge, age) =>
      Eq(requiredSavingPerYear, R(0)) /\ Eq(requiredSavingPerMonth, R(0))

\* C8: for non-negative amounts, ordered ages and rates above -1 every
\* monetary output is non-negative
C8_OutputsNonNegative ==
    (OrderedAges /\ RatesAboveMinusOne) =>
      /\ Ge(projectedFVAtRetire, R(0))
      /\ Ge(requiredSavingPerMonth, R(0))
      /\ \A k \in 1..Len(chartData) : Ge(chartData[k].wealth, R(0))
      /\ Ge(lifeNeed, R(0))
      /\ Ge(ciNeed, R(0))

\* the number of accumulation years, as an index into the curve
RetireIdx == yearsToRetire[1]

\* no goals, still working, and the curve reaches the last working year
AccumulationRecorded ==
    /\ goals = <<>>
    /\ Lt(age, retireAge)
    /\ RetireIdx <= Len(chartData)

\* |a - b| * 2^MantissaBits <= ulps * max(a, b), for a, b >= 0
WithinUlps(a, b, ulps) ==
    Le(Mul(MathMax(Sub(a, b), Sub(b, a)), R(2^MantissaBits)),
       Mul(R(ulps), MathMax(a, b)))

C24_FundedPlanLasts ==
    (goals = <<>> /\ Gt(targetCorpus, R(0)) /\ Ge(readiness, R(1))) =>
        \A k \in 1..Len(chartData) :
          "draw" \in DOMAIN chartData[k] => Gt(chartData[k].wealth, R(0))

(* ----------------------- claims under SpecGoals ----------------------- *)

\* the positions of the goals due by retirement, seen from the current year
DueIdx ==
    {k \in 1..Len(goals) : Le(goals[k].year, Add(R(currentYear), yearsToRetire))}

\* fv(netCurrentAssets) + fvSeries(annualSavings)
CorpusBeforeGoals ==
    Add(fv(netAssets, returnBefore, yearsToRetire),
        fvSeries(Add(Mul(currentSavingPerMonth, R(12)), Mul(incomeYear, pvdRate)),
                 returnBefore, yearsToRetire))

\* the inflated cost of each due goal, 0 for the others
DueCosts ==
    [k \in 1..Len(goals) |->
       IF k \in DueIdx
       THEN Mul(goals[k].target,
                MathPow(Add(R(1), inflation), Sub(goals[k].year, R(currentYear))))
       ELSE R(0)]

WithoutGoal(k) == [j \in 1..(Len(goals) - 1) |-> IF j < k THEN goals[j] ELSE goals[j + 1]]

\* goals one could add: a non-negative amount, due before, in or after this year
ProbeGoals ==
    {[id |-> "probe", name |-> "probe", target |-> t, year |-> R(currentYear + d),
      priority |-> R(5)] : t \in {R(0), R(50000)}, d \in {-1, 0, 1, MaxAge + 1}}

\* C9: the projected corpus is fv(net assets) + fvSeries(annual savings) minus
\* the inflated cost of exactly the goals due by retirement, clamped at 0; a
\* goal due later does not change it; adding a goal never increases it
C9_GoalDeduction ==
    \E corpus \in {projectedFVAtRetireAt(goals, currentYear)} :
      /\ corpus = MathMax(Sub(CorpusBeforeGoals, SumSeq(DueCosts)), R(0))
      /\ \A k \in (1..Len(goals)) \ DueIdx :
           projectedFVAtRetireAt(WithoutGoal(k), currentYear) = corpus
      /\ \A g \in ProbeGoals :
           Le(projectedFVAtRetireAt(Append(goals, g), currentYear), corpus)

\* C9 witness: a due goal is deducted at an inflated cost, another goal is due
\* only after retirement, and the clamp at 0 is not what decides the result
C9_Witness ==
    /\ DueIdx # {}
    /\ (1..Len(goals)) \ DueIdx # {}
    /\ Gt(inflation, R(0))
    /\ Gt(SumSeq(DueCosts), R(0))
    /\ Gt(projectedFVAtRetireAt(goals, currentYear), R(0))
    /\ \E k \in DueIdx : Lt(goals[k].year, R(currentYear))

\* C10: evaluating the projection on the same inputs in another calendar
\* year gives the same projected corpus and the same readiness ratio
C10_SameInputsSameResult ==
    \A yr \in FirstYear..(FirstYear + MaxTick) :
      projectedFVAtRetireAt(goals, yr) = projectedFVAtRetireAt(goals, currentYear)


\* C11: no two goals of the collection have the same identifier
C11_UniqueIds ==
    \A j, k \in 1..Len(goals) : goals[j].id = goals[k].id => j = k

\* the identifiers a goal can carry, and one that no goal carries
KnownIds == {"g1", "g2"} \cup NewIds

AbsentId == "none"

\* new holds old's entries unchanged and in order, then one entry with newId
AddFrame(old, new, newId) ==
    /\ Len(new) = Len(old) + 1
    /\ \A k \in 1..Len(old) : new[k] = old[k]
    /\ new[Len(new)].id = newId

\* new has old's length and order; an entry with another identifier is the
\* same, an entry with this identifier has patch's fields over its own
UpdFrame(old, new, id, patch) ==
    /\ Len(new) = Len(old)
    /\ \A k \in 1..Len(old) :
         IF old[k].id # id
         THEN new[k] = old[k]
         ELSE /\ DOMAIN new[k] = DOMAIN old[k]
              /\ \A fld \in DOMAIN old[k] :
                   new[k][fld] = IF fld \in DOMAIN patch THEN patch[fld]
                                                         ELSE old[k][fld]

\* new is old without the entries with this identifier, the others unchanged
\* and in the same order
DelFrame(old, new, id) ==
    LET kept == {k \in 1..Len(old) : old[k].id # id}
    IN  /\ Len(new) = Cardinality(kept)
        /\ \A k \in kept : new[Cardinality({j \in kept : j <= k})] = old[k]

C17_Step ==
    /\ \A newId \in NewIds : add(newId) => AddFrame(goals, goals', newId)
    /\ \A id \in rowIds : \A patch \in Patches :
         upd(id, patch) => UpdFrame(goals, goals', id, patch)
    /\ \A id \in rowIds : del(id) => DelFrame(goals, goals', id)
    /\ \A id \in (KnownIds \cup {AbsentId}) \ rowIds :
         /\ delGoals(goals, id) = goals
         /\ \A patch \in Patches : updGoals(goals, id, patch) = goals

\* C17: every add, update and remove leaves the goals with another
\* identifier unchanged and in the same relative order: update keeps length
\* and order and merges the patch into the entries with the identifier only,
\* remove deletes exactly the entries with the identifier (none when no
\* entry has it), add keeps the existing entries and puts the new one last
C17_GoalFrame == [][C17_Step]_vars

\* C17 witness: a goal was added last and one of the two initial goals was
\* renamed while the other one is as it was
C17_Witness ==
    /\ Len(goals) = 3
    /\ goals[3].id \in NewIds
    /\ goals[1].name = "renamed"
    /\ goals[2] = initialGoals(FirstYear)[2]

\* a step of the goal editor: add, update or remove
GoalOp ==
    \/ \E newId \in NewIds : add(newId)
    \/ \E id \in rowIds : \E patch \in Patches : upd(id, patch)
    \/ \E id \in rowIds : del(id)

C21_Step ==
    GoalOp =>
        /\ chartDeps' = chartDeps
        /\ mcDeps' = mcDeps
        /\ mcVars' = mcVars
        /\ targetCorpus' = targetCorpus
        /\ requiredSavingPerMonth' = requiredSavingPerMonth
        /\ lifeNeed' = lifeNeed
        /\ ciNeed' = ciNeed

\* C21: an add, update or remove of a goal leaves every dependency of the
\* wealth-curve memo (so that the curve stays the one computed before), every
\* dependency of the Monte Carlo memo (so that it is not sampled again), the
\* target corpus, the required monthly saving and the two protection gaps
\* as they were
C21_GoalOpsFrame == [][C21_Step]_vars

\* C21 witness: goal operations have changed the projected corpus of a plan
\* that has a wealth curve and a positive target corpus
C21_Witness ==
    /\ edits > 0
    /\ projectedFVAtRetire # projectedFVAtRetireAt(initialGoals(FirstYear), currentYear)
    /\ Len(chartData) > 1
    /\ Gt(targetCorpus, R(0))

(* ------------------------ claims under SpecMemo ----------------------- *)

\* a change of an input: every step but the turn of the year
InputChange == currentYear' = currentYear

C20_Step ==
    InputChange => projectedFVAtRetire' = projectedFVAtRetireAt(goals, currentYear)'

\* C20: after every change of an input (a field edit or a goal update) the
\* memoized projected corpus equals what the computation returns when run
\* from scratch on the inputs of that moment
C20_MemoIsFresh == [][C20_Step]_vars

(* ------------------------- claims under SpecMC ------------------------ *)

DecumYears == {k \in 1..Len(hist) : hist[k].decum}

AllDecumPositive == \A k \in DecumYears : Gt(hist[k].wealth, R(0))

\* the trial evaluated every year from age through lifeExpectancy, in order
EveryYearEvaluated ==
    /\ R(Len(hist)) = Add(horizonYears, R(1))
    /\ \A k \in 1..Len(hist) : hist[k].age = Add(age, R(k - 1))

\* a trial is under way
InTrial == pc \in {"year", "push"}

C1_Verdict ==
    /\ \A k \in 1..Len(hist) : hist[k].decum <=> Ge(hist[k].age, retireAge)
    /\ \A k \in 1..(Len(hist) - 1) : hist[k].decum => Gt(hist[k].wealth, R(0))
    /\ InTrial => (ok <=> AllDecumPositive)
    /\ (InTrial /\ ~ok) =>
         /\ pc = "push"
         /\ hist[Len(hist)].decum
         /\ Le(hist[Len(hist)].wealth, R(0))
    /\ (pc = "push" /\ ok) => EveryYearEvaluated

C1_Count ==
    /\ results'.sum > results.sum =>
         /\ pc = "push" /\ ok /\ AllDecumPositive /\ EveryYearEvaluated
         /\ results'.sum = results.sum + 1
    /\ (pc = "push" /\ ~ok) => results'.sum = results.sum
    /\ results'.sum >= results.sum
    /\ (InTrial /\ ~ok) => (hist' = hist /\ pc' = "trial")

\* C1: a trial fails at the first retirement year (age >= retireAge) whose
\* wealth after the withdrawal is <= 0 and evaluates no year after it; a
\* failed trial adds nothing to the success count; a trial adds one to the
\* count only if it evaluated every year from age through lifeExpectancy and
\* wealth was > 0 after every retirement year; wealth <= 0 in a year before
\* retirement never fails the trial.
C1_FailAtFirstDryYear == [](C1_Verdict) /\ [][C1_Count]_vars

\* a trial that went to or below zero before retirement without failing, and
\* then ran dry in retirement, after an earlier trial was counted a success
C1_Witness ==
    /\ pc = "push"
    /\ ~ok
    /\ results.sum > 0
    /\ \E k \in 1..Len(hist) : ~hist[k].decum /\ Le(hist[k].wealth, R(0))

\* C6: when the loop is left, successProb is the number of successful trials
\* over the number of trials executed, and lies in [0, 1].
C6_ProbIsFraction ==
    pc = "done" =>
        /\ results.len > 0
        /\ successProb = Q(results.sum, results.len)
        /\ Ge(successProb, R(0))
        /\ Le(successProb, R(1))

C7_Year ==
    (pc = "year" /\ Le(R(y), horizonYears)) =>
        /\ y' = IF pc' = "year" THEN y + 1 ELSE y
        /\ \E z \in NormalDraws :
             \E rb \in {Add(R(1), Add(returnBefore, Mul(z, stdevBefore)))},
                ra \in {Add(R(1), Add(returnAfter, Mul(z, stdevAfter)))},
                shock \in {Add(R(1), bearShock)} :
               wealth' =
                 IF Lt(Add(age, R(y)), retireAge)
                 THEN IF y = 0
                      THEN Mul(Add(Mul(wealth, rb), yearContribution), shock)
                      ELSE Add(Mul(wealth, rb), yearContribution)
                 ELSE Sub(Mul(wealth, ra), needAtAge(Add(age, R(y))))

C7_Reset ==
    /\ (y' # y /\ ~(pc = "year" /\ pc' = "year")) => (pc = "trial" /\ y' = 0)
    /\ ~(pc = "year" /\ Le(R(y), horizonYears)) =>
         (wealth' = wealth \/ (pc = "trial" /\ wealth' = netAssets))

\* C7: within a trial wealth is multiplied by (1 + bearShock) only in year
\* y = 0, which a trial passes once, and only if that year is before
\* retirement; the multiplication follows the growth and the contribution of
\* that year, so the contribution is scaled too; every other year, and every
\* year of a trial that starts at or past retireAge, applies no shock.
C7_ShockOnceAfterContribution == [][C7_Year /\ C7_Reset]_vars

\* a trial that has passed two years before retirement: the shocked first
\* year and an unshocked second
C7_Witness ==
    /\ pc = "year"
    /\ y = 2
    /\ Len(hist) = 2
    /\ ~hist[1].decum
    /\ ~hist[2].decum
    /\ bearShock # R(0)
    /\ yearContribution # R(0)


\* both standard deviations and the first-year shock are 0
ZeroVolatility ==
    /\ stdevBefore = R(0)
    /\ stdevAfter = R(0)
    /\ bearShock = R(0)

\* no record of a retirement year of the wealth curve reports wealth 0
ChartNeverDry ==
    \A k \in 1..Len(chartData) :
      "draw" \in DOMAIN chartData[k] => ~IsZero(chartData[k].wealth)

\* the years of the trial under way carry the wealth the curve reports
TrialFollowsChart ==
    \A k \in 1..Len(hist) :
      /\ k <= Len(chartData)
      /\ hist[k].age = chartData[k].age
      /\ MathMax(hist[k].wealth, R(0)) = chartData[k].wealth

\* C22: without volatility and without shock every trial follows the wealth
\* curve year by year, and when the loop is left successProb is exactly 1 if
\* no retirement year of the curve reports wealth 0 and exactly 0 otherwise
C22_DeterministicVerdict ==
    ZeroVolatility =>
        /\ InTrial => TrialFollowsChart
        /\ pc = "done" => successProb = (IF ChartNeverDry THEN R(1) ELSE R(0))

(* ----------------------- claims under SpecScale ----------------------- *)

C12_Step ==
    \A k \in ScaleFactors :
      (f' = scaleForm(f, k) /\ goals' = scaleGoals(goals, k)) =>
        /\ targetCorpus' = Mul(k, targetCorpus)
        /\ projectedFVAtRetire' = Mul(k, projectedFVAtRetire)
        /\ readiness' = readiness

Returned(fn) == call.fn = fn /\ call.done

C15_NoPeriodsZero ==
    ((Returned("annuityCorpus") \/ Returned("fvSeries")) /\ Le(call.args[3], R(0)))
      => call.out = R(0)

\* fvSeries has returned for a negative period count, rate 0 and a positive payment
C15_Witness ==
    /\ Returned("fvSeries")
    /\ Lt(call.args[3], R(0))
    /\ call.args[2] = R(0)
    /\ Gt(call.args[1], R(0))
    /\ call.out = R(0)

\* C16: for rate 0 and periods > 0, fvSeries(p, 0, n) = p * n,
\* annuityCorpus(a, 0, n) = a * n and pmtMonthly(P, 0, years) = P / (12 * years),
\* so pmtMonthly(120000, 0, 10) = 1000; the results are finite
C16_ZeroRateLinear ==
    (call.done /\ call.args[2] = R(0) /\ Gt(call.args[3], R(0))
       /\ call.fn \in {"fvSeries", "annuityCorpus", "pmtMonthly"}) =>
      /\ IsFinite(call.out)
      /\ call.fn \in {"fvSeries", "annuityCorpus"} =>
           call.out = Mul(call.args[1], call.args[3])
      /\ call.fn = "pmtMonthly" =>
           call.out = Div(call.args[1], Mul(R(12), call.args[3]))
      /\ (call.fn = "pmtMonthly" /\ call.args = <<R(120000), R(0), R(10)>>) =>
           call.out = R(1000)

\* pmtMonthly(120000, 0, 10) has returned 1000
C16_Witness ==
    /\ Returned("pmtMonthly")
    /\ call.args = <<R(120000), R(0), R(10)>>
    /\ call.out = R(1000)

\* in exact arithmetic: for a rate > -1 and years > 0, when targetFV exceeds
\* the future value of the assets, saving c = requiredSavingsPerYear(..) every
\* year closes the gap, fv(assets) + fvSeries(c) = targetFV; otherwise c is 0
C19_RoundTrip ==
    (/\ Returned("requiredSavingsPerYear")
     /\ Gt(call.args[3], R(-1))
     /\ Gt(call.args[4], R(0))) =>
       \E grown \in {fv(call.args[2], call.args[3], call.args[4])} :
         IF Gt(call.args[1], grown)
         THEN Add(grown, fvSeries(call.out, call.args[3], call.args[4])) = call.args[1]
         ELSE call.out = R(0)

\* the round trip of the rounded call: fv(assets) + fvSeries(result)
RoundTripFl ==
    AddFl(fvFl(call.args[2], call.args[3], call.args[4]),
          fvSeriesFl(call.out, call.args[3], call.args[4]))

\* the rounded call is in the domain of the claim and has a gap to close
GapFl ==
    /\ Returned("requiredSavingsPerYearFl")
    /\ Gt(call.args[3], R(-1))
    /\ Gt(call.args[4], R(0))
    /\ Gt(call.args[1], fvFl(call.args[2], call.args[3], call.args[4]))

TotalMonthlyExpense == Add(Add(f.expBasic, f.expHealth), f.expLifestyle)

\* (incomeMain + incomeSide) * 12
AnnualIncome == Mul(Add(f.incomeMain, f.incomeSide), R(12))

\* C14: children are assumed iff the total monthly expense is strictly above
\* 40,000; the replacement horizon is 20 years with children and 10 without;
\* the education reserve is 1,000,000 with children and 0 without; the life
\* cover is max(income * horizon + both loan principals + reserve - net
\* assets - existing cover, 0) and the critical-illness cover is
\* max(3 * income - existing cover, 0).
C14_ProtectionGap ==
    LET children == Gt(TotalMonthlyExpense, R(40000))
        replacementYears == IF children THEN R(20) ELSE R(10)
        reserve == IF children THEN R(1000000) ELSE R(0)
        net == MathMax(Sub(f.currentAssets, f.currentDebt), R(0))
        gross == Add(Add(Add(Mul(AnnualIncome, replacementYears), mortgage.principal),
                         carLoan.principal),
                     reserve)
    IN  /\ childrenCountGuess(monthlyExpense) <=> children
        /\ yearsToProtect = replacementYears
        /\ educationReserveGuess(monthlyExpense) = reserve
        /\ lifeNeed = MathMax(Sub(Sub(gross, net), f.lifeCoverHave), R(0))
        /\ ciNeed = MathMax(Sub(Mul(AnnualIncome, R(3)), f.ciCoverHave), R(0))

\* a household spending exactly 40,000 a month, with income, debt and loans,
\* whose recommended life cover is positive
C14_Witness ==
    /\ TotalMonthlyExpense = R(40000)
    /\ Gt(f.expLifestyle, R(0))
    /\ Gt(AnnualIncome, R(0))
    /\ Gt(f.currentDebt, R(0))
    /\ Gt(f.currentAssets, f.currentDebt)
    /\ Gt(lifeNeed, R(0))
    /\ Gt(ciNeed, R(0))


\* C18: whatever is entered in the trial-count input (a number, nothing,
\* or text that is no number), runs stays within [100, 3000]
C18_RunsInRange == Ge(runs, R(100)) /\ Le(runs, R(3000))

\* the trial count after an entry at or below the lower limit
C18_Witness == runs = R(100)

====
